---- MODULE Spec2Model ----
(***************************************************************************)
(* Model of gammapy/utils/fitting/scipy.py: the scipy backend of the      *)
(* fitting module (optimize_scipy, TSDifference, _confidence_scipy_brentq, *)
(* confidence_scipy, covariance_scipy), specification Spec; and of the     *)
(* energy thresholds of gammapy/spectrum/observation.py                    *)
(* (SpectrumObservation), specification SpecObs.                           *)
(*                                                                         *)
(* Factors are integers.  The parameter set is an ordered sequence of      *)
(* Parameter records.  A call is one action; what a call computes is an   *)
(* operator that threads the parameter set through every objective        *)
(* evaluation, exactly in the order of the code.  A raised exception is    *)
(* the field exc of an outcome ("none" when the call returned).            *)
(***************************************************************************)
EXTENDS Integers, Sequences, FiniteSets, TLC

VARIABLES parameters, function, minimize_impl, last, noptimize, observation

vars == <<parameters, function, minimize_impl, last, noptimize, observation>>

(* ------------------------------ bounds -------------------------------- *)

\* evaluations the minimizer may spend per free parameter (scipy: 200)
MaxFev == 8

\* calls of optimize_scipy a caller makes (each moves the free parameters)
MaxOptimize == 1

\* largest standard-error estimate the covariance mechanism supplies
MaxErr == 1

\* the energies of an observation are 0..MaxEnergy
MaxEnergy == 2

(* ----------------------------- constants ------------------------------ *)

\* numpy.nan: the value of an unset factor_min / factor_max
NaN == -1000

\* Python's None: an endpoint the caller did not override
None == -2000

isnan(v) == v = NaN

abs(v) == IF v < 0 THEN -v ELSE v

\* the element of a one-element set; { F(v) : v \in {e} } evaluates e once
Only(S) == CHOOSE v \in S : TRUE

(* --------------------------- Parameter set ---------------------------- *)

\* Parameter.value
value(par) == par.factor * par.scale

\* Parameters.free_parameters: the indices of the free parameters, in order
free_parameters(P) ==
    SelectSeq([i \in 1..Len(P) |-> i], LAMBDA i : ~P[i].frozen)

\* Parameters.error(parameter)
error(P, t) == P[t].err

\* Parameters.restore_values, on exit: every value and frozen flag of the
\* snapshot is written back
restore_values(snapshot, P) ==
    [i \in 1..Len(P) |->
        [P[i] EXCEPT !.factor = value(snapshot[i]) \div P[i].scale,
                     !.frozen = snapshot[i].frozen]]

(* ------------------------- objective functions ------------------------ *)

Functions == {"quadratic", "quadratic2", "linear", "partial"}

\* the callable `function(parameters)`: exc is the exception it raises.
\* "partial" is defined for positive x only: it raises a math domain error
\* (ValueError) for x < 0 and ZeroDivisionError for x = 0.
function_call(fn, P) ==
    LET x == P[1].factor
        y == P[2].factor
    IN  CASE fn = "quadratic"  -> [exc |-> "none", value |-> (x - 3) * (x - 3)]
          [] fn = "quadratic2" ->
                [exc |-> "none", value |-> (x - 3) * (x - 3) + (y - 4) * (y - 4)]
          [] fn = "linear"     -> [exc |-> "none", value |-> x]
          [] fn = "partial"    ->
                IF x < 0 THEN [exc |-> "ValueError", value |-> 0]
                ELSE IF x = 0 THEN [exc |-> "ZeroDivisionError", value |-> 0]
                ELSE [exc |-> "none", value |-> (x - 3) * (x - 3)]

(* -------------------------- Likelihood adapter ------------------------ *)

\* Likelihood.fcn(factors): write the factors into the free parameters, in
\* free-parameter order, then evaluate the function
Likelihood_fcn(fn, P, factors) ==
    LET free == free_parameters(P)
        Q == [i \in 1..Len(P) |->
                IF \E k \in 1..Len(free) : free[k] = i
                THEN [P[i] EXCEPT !.factor =
                        factors[CHOOSE k \in 1..Len(free) : free[k] = i]]
                ELSE P[i]]
        r == function_call(fn, Q)
    IN  [P |-> Q, exc |-> r.exc, value |-> r.value]

(* ------------------------- scipy.optimize.minimize -------------------- *)

\* The two behaviours of scipy.optimize.minimize(method="Nelder-Mead") for
\* the bounds argument: releases that warn and ignore the bounds, and
\* releases that convert and validate them before the first evaluation.
MinimizeImpls == {"ignores_bounds", "validates_bounds"}

MaxfevMessage == "Maximum number of function evaluations has been exceeded."

SuccessMessage == "Optimization terminated successfully."

\* numpy.clip of one factor to a (parmin, parmax) pair, None meaning open
clip(v, bound) ==
    LET lo == IF bound[1] # None /\ v < bound[1] THEN bound[1] ELSE v
    IN  IF bound[2] # None /\ lo > bound[2] THEN bound[2] ELSE lo

\* the k-th trial move of the search: coordinate (m + 1) \div 2, one step
\* up for odd m and one step down for even m
trial_point(impl, xbest, bounds, m) ==
    [k \in 1..Len(xbest) |->
        LET v == IF k = (m + 1) \div 2
                 THEN (IF m % 2 = 1 THEN xbest[k] + 1 ELSE xbest[k] - 1)
                 ELSE xbest[k]
        IN  IF impl = "validates_bounds" THEN clip(v, bounds[k]) ELSE v]

\* The iteration of the derivative-free search.  Every trial is evaluated
\* through the adapter, which writes it into the parameter set; the best
\* point seen is kept; the search stops when the evaluation budget is spent
\* (failure) or when no move improves the best point (success).  last_x is
\* the point handed to the adapter last.
RECURSIVE minimize_loop(_, _, _, _, _)
minimize_loop(impl, fn, bounds, maxfun, s) ==
    LET n == Len(s.x)
        step(e, xt) ==
            IF e.exc # "none" THEN
                [exc |-> e.exc, P |-> e.P, x |-> s.x, success |-> FALSE,
                 message |-> "", nfev |-> s.nfev + 1, last_x |-> xt]
            ELSE
                Only({ minimize_loop(impl, fn, bounds, maxfun, s1) : s1 \in
                    { IF e.value < s.f
                      THEN [P |-> e.P, x |-> xt, f |-> e.value,
                            nfev |-> s.nfev + 1, m |-> s.m, fails |-> 0,
                            last_x |-> xt]
                      ELSE [P |-> e.P, x |-> s.x, f |-> s.f,
                            nfev |-> s.nfev + 1,
                            m |-> IF s.m = 2 * n THEN 1 ELSE s.m + 1,
                            fails |-> s.fails + 1, last_x |-> xt] } })
    IN  IF s.nfev >= maxfun THEN
            [exc |-> "none", P |-> s.P, x |-> s.x, success |-> FALSE,
             message |-> MaxfevMessage, nfev |-> s.nfev, last_x |-> s.last_x]
        ELSE IF s.fails >= 2 * n THEN
            [exc |-> "none", P |-> s.P, x |-> s.x, success |-> TRUE,
             message |-> SuccessMessage, nfev |-> s.nfev, last_x |-> s.last_x]
        ELSE
            Only({ Only({ step(e, xt) : e \in {Likelihood_fcn(fn, s.P, xt)} }) :
                     xt \in {trial_point(impl, s.x, bounds, s.m)} })

\* minimize(likelihood.fcn, pars, bounds=bounds, method="Nelder-Mead")
minimize(impl, fn, P, pars, bounds) ==
    IF impl = "validates_bounds" /\ Len(bounds) = 0 THEN
        \* the bounds conversion unpacks zip(*bounds): nothing to unpack
        [exc |-> "ValueError", P |-> P, x |-> pars, success |-> FALSE,
         message |-> "", nfev |-> 0, last_x |-> pars]
    ELSE IF impl = "validates_bounds"
            /\ \E k \in 1..Len(bounds) :
                  /\ bounds[k][1] # None
                  /\ bounds[k][2] # None
                  /\ bounds[k][1] > bounds[k][2] THEN
        [exc |-> "ValueError", P |-> P, x |-> pars, success |-> FALSE,
         message |-> "", nfev |-> 0, last_x |-> pars]
    ELSE
        LET x0 == [k \in 1..Len(pars) |->
                      IF impl = "validates_bounds"
                      THEN clip(pars[k], bounds[k]) ELSE pars[k]]
            e == Likelihood_fcn(fn, P, x0)
        IN  IF e.exc # "none" THEN
                [exc |-> e.exc, P |-> e.P, x |-> x0, success |-> FALSE,
                 message |-> "", nfev |-> 1, last_x |-> x0]
            ELSE
                Only({ minimize_loop(impl, fn, bounds, MaxFev * Len(pars), s) :
                    s \in {[P |-> e.P, x |-> x0, f |-> e.value, nfev |-> 1,
                            m |-> 1, fails |-> 0, last_x |-> x0]} })

(* ------------------------------ optimize ------------------------------ *)

\* optimize_scipy writing the factors it returns into the parameters
optimize_scipy_sets_factors(impl, fn, P) ==
    LET free == free_parameters(P)
        pars == [k \in 1..Len(free) |-> P[free[k]].factor]
        bounds == [k \in 1..Len(free) |->
                     LET par == P[free[k]]
                         parmin == IF ~isnan(par.factor_min)
                                   THEN par.factor_min ELSE None
                         parmax == IF ~isnan(par.factor_max)
                                   THEN par.factor_max ELSE None
                     IN  <<parmin, parmax>>]
        result == minimize(impl, fn, P, pars, bounds)
    IN  [exc |-> result.exc,
         P |-> IF result.exc # "none" THEN result.P
               ELSE Likelihood_fcn(fn, result.P, result.x).P,
         factors |-> result.x,
         info |-> [success |-> result.success,
                   message |-> result.message,
                   nfev |-> result.nfev],
         last_x |-> result.last_x]

\* optimize_scipy(parameters, function); last_x is the point the minimizer
\* evaluated last
optimize_scipy(impl, fn, P) ==
    LET free == free_parameters(P)
        pars == [k \in 1..Len(free) |-> P[free[k]].factor]
        bounds == [k \in 1..Len(free) |->
                     LET par == P[free[k]]
                         parmin == IF ~isnan(par.factor_min)
                                   THEN par.factor_min ELSE None
                         parmax == IF ~isnan(par.factor_max)
                                   THEN par.factor_max ELSE None
                     IN  <<parmin, parmax>>]
        result == minimize(impl, fn, P, pars, bounds)
    IN  [exc |-> result.exc,
         P |-> result.P,
         factors |-> result.x,
         info |-> [success |-> result.success,
                   message |-> result.message,
                   nfev |-> result.nfev],
         last_x |-> result.last_x]

(* ---------------------------- TSDifference ---------------------------- *)

\* TSDifference.__init__ without the freezing of the parameter
TSDifference_init_unfrozen(fn, P, t, ts_diff) ==
    LET r == function_call(fn, P)
    IN  [exc |-> r.exc, P |-> P, t |-> t,
         loglike_ref |-> IF r.exc # "none" THEN 0 ELSE r.value,
         ts_diff |-> ts_diff, trace |-> <<>>]

\* TSDifference.__init__: the reference value is evaluated, then the
\* parameter is frozen.  trace records every later call of fcn.
TSDifference_init(fn, P, t, ts_diff) ==
    LET r == function_call(fn, P)
    IN  IF r.exc # "none" THEN
            [exc |-> r.exc, P |-> P, t |-> t, loglike_ref |-> 0,
             ts_diff |-> ts_diff, trace |-> <<>>]
        ELSE
            [exc |-> "none",
             P |-> [P EXCEPT ![t].frozen = TRUE],
             t |-> t, loglike_ref |-> r.value,
             ts_diff |-> ts_diff, trace |-> <<>>]

\* TSDifference.fcn(factor); the entry appended to trace records what this
\* call did
TSDifference_fcn(impl, fn, self, factor) ==
    LET P1 == [self.P EXCEPT ![self.t].factor = factor]
        evaluate(o) ==
            LET r == IF o.exc # "none" THEN [exc |-> o.exc, value |-> 0]
                     ELSE function_call(fn, o.P)
                entry == [factor |-> factor,
                          frozen |-> P1[self.t].frozen,
                          nfree |-> Len(free_parameters(P1)),
                          opt_exc |-> o.exc,
                          opt_success |-> o.info.success,
                          opt_message |-> o.info.message,
                          opt_factors |-> o.factors,
                          evaluated |-> [i \in 1..Len(o.P) |-> o.P[i].factor],
                          exc |-> r.exc,
                          value |-> r.value]
            IN  [exc |-> r.exc,
                 value |-> r.value - self.loglike_ref - self.ts_diff,
                 self |-> [self EXCEPT !.P = o.P,
                                       !.trace = Append(self.trace, entry)]]
    IN  Only({ evaluate(o) : o \in {optimize_scipy(impl, fn, P1)} })

(* ------------------------- scipy.optimize.brentq ---------------------- *)

\* The iteration of the bracketed root-finder, with its bisection step on
\* the integer grid: xblk and xcur bracket a sign change of f, and xcur is
\* the endpoint with the smaller |f|.  It stops at a zero of f or when the
\* bracket is one grid step wide, and returns xcur.
RECURSIVE brentq_loop(_, _, _, _, _, _, _, _)
brentq_loop(impl, fn, self, xblk, fblk, xcur, fcur, iterations) ==
    LET swap == abs(fblk) < abs(fcur)
        xb == IF swap THEN xcur ELSE xblk
        fb == IF swap THEN fcur ELSE fblk
        xc == IF swap THEN xblk ELSE xcur
        fc == IF swap THEN fblk ELSE fcur
        xmid == (xb + xc) \div 2
        step(e) ==
            IF e.exc # "none" THEN
                [exc |-> e.exc, origin |-> "f", self |-> e.self,
                 root |-> 0, iterations |-> iterations + 1]
            ELSE IF (e.value < 0) # (fc < 0) THEN
                brentq_loop(impl, fn, e.self, xc, fc, xmid, e.value,
                            iterations + 1)
            ELSE
                brentq_loop(impl, fn, e.self, xb, fb, xmid, e.value,
                            iterations + 1)
    IN  IF fc = 0 \/ abs(xb - xc) <= 1 THEN
            [exc |-> "none", origin |-> "", self |-> self,
             root |-> xc, iterations |-> iterations + 1]
        ELSE
            Only({ step(e) : e \in {TSDifference_fcn(impl, fn, self, xmid)} })

\* brentq(ts_diff.fcn, full_output=True, a=a, b=b): f(a) and f(b) are
\* evaluated, in this order; equal signs are the precondition failure
brentq(impl, fn, self, a, b) ==
    LET second(ea, eb) ==
            IF eb.exc # "none" THEN
                [exc |-> eb.exc, origin |-> "f", self |-> eb.self,
                 root |-> 0, iterations |-> 0]
            ELSE IF ea.value * eb.value > 0 THEN
                [exc |-> "ValueError", origin |-> "brentq",
                 self |-> eb.self, root |-> 0, iterations |-> 0]
            ELSE IF ea.value = 0 THEN
                [exc |-> "none", origin |-> "", self |-> eb.self,
                 root |-> a, iterations |-> 0]
            ELSE IF eb.value = 0 THEN
                [exc |-> "none", origin |-> "", self |-> eb.self,
                 root |-> b, iterations |-> 0]
            ELSE
                brentq_loop(impl, fn, eb.self, a, ea.value, b, eb.value, 0)
        first(ea) ==
            IF ea.exc # "none" THEN
                [exc |-> ea.exc, origin |-> "f", self |-> ea.self,
                 root |-> 0, iterations |-> 0]
            ELSE
                Only({ second(ea, eb) : eb \in
                         {TSDifference_fcn(impl, fn, ea.self, b)} })
    IN  Only({ first(ea) : ea \in {TSDifference_fcn(impl, fn, self, a)} })

(* ----------------------------- confidence ----------------------------- *)

BracketMessage == "Confidence estimation failed, because bracketing interval does not contain a unique solution. Try setting the interval by hand."

ConfidenceMessage == "Confidence terminated successfully."

\* kwargs.setdefault(key, default)
setdefault(given, default) == IF given = None THEN default ELSE given

\* search_bound with the fallback not divided by the scale
search_bound_unscaled(P, t, upper) ==
    LET parameter == P[t]
        bound == IF upper THEN parameter.factor_max ELSE parameter.factor_min
    IN  IF isnan(bound) THEN
            IF upper
            THEN parameter.factor + 100 * error(P, t)
            ELSE parameter.factor - 100 * error(P, t)
        ELSE bound

\* the far endpoint of the search: the bound of the parameter in the search
\* direction, or, when that is nan, 100 standard errors from its factor
search_bound(P, t, upper) ==
    LET parameter == P[t]
        bound == IF upper THEN parameter.factor_max ELSE parameter.factor_min
    IN  IF isnan(bound) THEN
            IF upper
            THEN parameter.factor + (100 * error(P, t)) \div parameter.scale
            ELSE parameter.factor - (100 * error(P, t)) \div parameter.scale
        ELSE bound

\* _confidence_scipy_brentq(parameters, parameter, function, sigma, upper,
\* **kwargs).  kwargs is the record [a, b] of the caller's overrides.
\* Besides exc, P and result, the outcome keeps what the search did: the
\* endpoints handed to brentq, the root it returned, the trace of fcn,
\* whether the except clause ran and where its error came from.
confidence_scipy_brentq(impl, fn, P, t, sigma, upper, kwargs) ==
    LET finish(ts_diff, a, b, result) ==
            LET caught == result.exc = "ValueError"
                message == IF caught THEN BracketMessage
                           ELSE ConfidenceMessage
                success == ~caught
                none == [nfev |-> 0, err |-> 0, success |-> success,
                         message |-> message,
                         loglike_ref |-> ts_diff.loglike_ref]
            IN  IF caught THEN
                    \* the name result is not bound when the dict is built
                    [exc |-> "UnboundLocalError", P |-> result.self.P,
                     result |-> none, started |-> TRUE, a |-> a, b |-> b,
                     root |-> 0, trace |-> result.self.trace,
                     caught |-> TRUE, origin |-> result.origin]
                ELSE IF result.exc # "none" THEN
                    [exc |-> result.exc, P |-> result.self.P,
                     result |-> none, started |-> TRUE, a |-> a, b |-> b,
                     root |-> 0, trace |-> result.self.trace,
                     caught |-> FALSE, origin |-> result.origin]
                ELSE
                    [exc |-> "none", P |-> result.self.P,
                     result |-> [nfev |-> result.iterations,
                                 err |-> abs(result.root - a),
                                 success |-> success,
                                 message |-> message,
                                 loglike_ref |-> ts_diff.loglike_ref],
                     started |-> TRUE, a |-> a, b |-> b,
                     root |-> result.root, trace |-> result.self.trace,
                     caught |-> FALSE, origin |-> ""]
        search(ts_diff) ==
            LET parameter == ts_diff.P[t]
                a == setdefault(kwargs.a, parameter.factor)
                b == setdefault(kwargs.b, search_bound(ts_diff.P, t, upper))
            IN  IF ts_diff.exc # "none" THEN
                    [exc |-> ts_diff.exc, P |-> ts_diff.P,
                     result |-> [nfev |-> 0, err |-> 0, success |-> TRUE,
                                 message |-> ConfidenceMessage,
                                 loglike_ref |-> 0],
                     started |-> FALSE, a |-> a, b |-> b, root |-> 0,
                     trace |-> <<>>, caught |-> FALSE,
                     origin |-> "function"]
                ELSE
                    Only({ finish(ts_diff, a, b, result) : result \in
                             {brentq(impl, fn, ts_diff, a, b)} })
    IN  Only({ search(ts_diff) : ts_diff \in
                 {TSDifference_init(fn, P, t, sigma * sigma)} })

\* the search that did not run because the one before it raised
NoSearch ==
    [exc |-> "none", P |-> <<>>,
     result |-> [nfev |-> 0, err |-> 0, success |-> FALSE, message |-> "",
                 loglike_ref |-> 0],
     started |-> FALSE, a |-> None, b |-> None, root |-> 0,
     trace |-> <<>>, caught |-> FALSE, origin |-> ""]

\* result.update(result_errp): the merged dict
merge(lower, upper) ==
    [nfev_errn |-> lower.nfev, errn |-> lower.err,
     success_errn |-> lower.success, message_errn |-> lower.message,
     nfev_errp |-> upper.nfev, errp |-> upper.err,
     success_errp |-> upper.success, message_errp |-> upper.message,
     loglike_ref |-> upper.loglike_ref]

\* what confidence_scipy hands back: the outcome of the call, the two
\* searches, and the parameter set between them
outcome(lower, upper, P1, P2) ==
    IF lower.exc # "none" THEN
        [exc |-> lower.exc, P |-> P1,
         result |-> merge(lower.result, NoSearch.result),
         lower |-> lower, upper |-> NoSearch, between |-> P1]
    ELSE
        [exc |-> upper.exc, P |-> P2,
         result |-> merge(lower.result, upper.result),
         lower |-> lower, upper |-> upper, between |-> P1]

\* confidence_scipy with the upper search outside a restore_values scope
confidence_scipy_upper_unscoped(impl, fn, P, t, sigma, kwargs) ==
    LET second(lower, P1) ==
            Only({ outcome(lower, upper, P1, upper.P) : upper \in
                {confidence_scipy_brentq(impl, fn, P1, t, sigma, TRUE,
                                         kwargs)} })
        first(lower) ==
            IF lower.exc # "none"
            THEN outcome(lower, NoSearch, restore_values(P, lower.P), <<>>)
            ELSE second(lower, restore_values(P, lower.P))
    IN  Only({ first(lower) : lower \in
            {confidence_scipy_brentq(impl, fn, P, t, sigma, FALSE, kwargs)} })

\* confidence_scipy with the lower search outside a restore_values scope
confidence_scipy_lower_unscoped(impl, fn, P, t, sigma, kwargs) ==
    LET second(lower, P1) ==
            Only({ outcome(lower, upper, P1, restore_values(P1, upper.P)) :
                upper \in
                {confidence_scipy_brentq(impl, fn, P1, t, sigma, TRUE,
                                         kwargs)} })
        first(lower) ==
            IF lower.exc # "none"
            THEN outcome(lower, NoSearch, lower.P, <<>>)
            ELSE second(lower, lower.P)
    IN  Only({ first(lower) : lower \in
            {confidence_scipy_brentq(impl, fn, P, t, sigma, FALSE, kwargs)} })

\* confidence_scipy(parameters, parameter, function, sigma, **kwargs): each
\* search runs inside its own `with parameters.restore_values`, which
\* restores on return and on raise; the second search is not reached when
\* the first one raises
confidence_scipy(impl, fn, P, t, sigma, kwargs) ==
    LET second(lower, P1) ==
            Only({ outcome(lower, upper, P1, restore_values(P1, upper.P)) :
                upper \in
                {confidence_scipy_brentq(impl, fn, P1, t, sigma, TRUE,
                                         kwargs)} })
        first(lower) ==
            IF lower.exc # "none"
            THEN outcome(lower, NoSearch, restore_values(P, lower.P), <<>>)
            ELSE second(lower, restore_values(P, lower.P))
    IN  Only({ first(lower) : lower \in
            {confidence_scipy_brentq(impl, fn, P, t, sigma, FALSE, kwargs)} })

(* ----------------------------- covariance ----------------------------- *)

\* covariance_scipy returning a placeholder instead of raising
covariance_scipy_placeholder(fn, P) ==
    [exc |-> "none", P |-> P, nfev |-> 0]

\* covariance_scipy(parameters, function)
covariance_scipy(fn, P) ==
    [exc |-> "NotImplementedError", P |-> P, nfev |-> 0]

(* ------------------------- SpectrumObservation ------------------------ *)

\* the energies a threshold can take
Energies == 0..MaxEnergy

\* SpectrumObservation.e_true: the true-energy axis, in increasing order
e_true == [k \in 1..MaxEnergy + 1 |-> k - 1]

\* the off vector of an observation without one
NoVector == [lo_threshold |-> None, hi_threshold |-> None]

\* no observation: the state of the observation while the fitting backend
\* is exercised
NoObservation ==
    [on_vector |-> NoVector, off_vector |-> NoVector, has_off |-> FALSE]

\* the thresholds of a counts vector are attributes that hold what was
\* assigned to them
vector_set_lo_threshold(vector, threshold) ==
    [vector EXCEPT !.lo_threshold = threshold]

vector_set_hi_threshold(vector, threshold) ==
    [vector EXCEPT !.hi_threshold = threshold]

\* reset_thresholds of a counts vector: every energy bin is valid
vector_reset_thresholds(vector) ==
    [vector EXCEPT !.lo_threshold = 0, !.hi_threshold = MaxEnergy]

\* SpectrumObservation.lo_threshold (getter)
lo_threshold(self) == self.on_vector.lo_threshold

\* SpectrumObservation.hi_threshold (getter)
hi_threshold(self) == self.on_vector.hi_threshold

\* SpectrumObservation.lo_threshold (setter); has_off is
\* `self.off_vector is not None`
lo_threshold_setter(self, threshold) ==
    [self EXCEPT
        !.on_vector = vector_set_lo_threshold(@, threshold),
        !.off_vector = IF self.has_off
                       THEN vector_set_lo_threshold(@, threshold) ELSE @]

\* SpectrumObservation.hi_threshold (setter)
hi_threshold_setter(self, threshold) ==
    [self EXCEPT
        !.on_vector = vector_set_hi_threshold(@, threshold),
        !.off_vector = IF self.has_off
                       THEN vector_set_hi_threshold(@, threshold) ELSE @]

\* SpectrumObservation.reset_thresholds()
reset_thresholds(self) ==
    [self EXCEPT
        !.on_vector = vector_reset_thresholds(@),
        !.off_vector = IF self.has_off
                       THEN vector_reset_thresholds(@) ELSE @]

\* the values of method_lo and method_hi a caller passes, one of them not a
\* method
Methods == {"area_max", "energy_bias", "none", "invalid"}

\* the keyword arguments a caller passes: the sets of keys present
Kwargs ==
    { {},
      {"area_percent_lo", "bias_percent_lo"},
      {"area_percent_lo", "bias_percent_lo",
       "area_percent_hi", "bias_percent_hi"} }

\* the low threshold of a method: found is the energy that
\* aeff.find_energy or edisp.get_bias_energy returns
thres_lo(method_lo, kwargs, found) ==
    CASE method_lo = "area_max" ->
            IF "area_percent_lo" \in kwargs
            THEN [exc |-> "none", thres |-> found]
            ELSE [exc |-> "KeyError", thres |-> None]
      [] method_lo = "energy_bias" ->
            IF "bias_percent_lo" \in kwargs
            THEN [exc |-> "none", thres |-> found]
            ELSE [exc |-> "KeyError", thres |-> None]
      [] method_lo = "none" -> [exc |-> "none", thres |-> e_true[1]]
      [] OTHER -> [exc |-> "ValueError", thres |-> None]

\* the high threshold of a method
thres_hi(method_hi, kwargs, found) ==
    CASE method_hi = "area_max" ->
            IF "area_percent_hi" \in kwargs
            THEN [exc |-> "none", thres |-> found]
            ELSE [exc |-> "KeyError", thres |-> None]
      [] method_hi = "energy_bias" ->
            IF "bias_percent_hi" \in kwargs
            THEN [exc |-> "none", thres |-> found]
            ELSE [exc |-> "KeyError", thres |-> None]
      [] method_hi = "none" ->
            [exc |-> "none", thres |-> e_true[Len(e_true)]]
      [] OTHER -> [exc |-> "ValueError", thres |-> None]

\* compute_energy_threshold with the thresholds written to the on vector
\* only
compute_energy_threshold_on_only(self, method_lo, method_hi, reset, kwargs, found) ==
    LET self1 == IF reset THEN reset_thresholds(self) ELSE self
        wrote1 == IF reset THEN {"lo", "hi"} ELSE {}
        lo == thres_lo(method_lo, kwargs, found.lo)
        self2 == [self1 EXCEPT
                    !.on_vector = vector_set_lo_threshold(@, lo.thres)]
        hi == thres_hi(method_hi, kwargs, found.hi)
        self3 == [self2 EXCEPT
                    !.on_vector = vector_set_hi_threshold(@, hi.thres)]
    IN  IF lo.exc # "none" THEN
            [exc |-> lo.exc, self |-> self1, wrote |-> wrote1]
        ELSE IF hi.exc # "none" THEN
            [exc |-> hi.exc, self |-> self2, wrote |-> wrote1 \cup {"lo"}]
        ELSE
            [exc |-> "none", self |-> self3, wrote |-> {"lo", "hi"}]

\* compute_energy_threshold(method_lo, method_hi, reset, **kwargs): the
\* optional reset, then the low threshold is computed and written to both
\* vectors, then the high threshold; found holds the energies that
\* aeff.find_energy or edisp.get_bias_energy return; wrote names the
\* thresholds the call wrote before it returned or raised
compute_energy_threshold(self, method_lo, method_hi, reset, kwargs, found) ==
    LET self1 == IF reset THEN reset_thresholds(self) ELSE self
        wrote1 == IF reset THEN {"lo", "hi"} ELSE {}
        lo == thres_lo(method_lo, kwargs, found.lo)
        self2 == [self1 EXCEPT
                    !.on_vector = vector_set_lo_threshold(@, lo.thres),
                    !.off_vector =
                        IF self1.has_off
                        THEN vector_set_lo_threshold(@, lo.thres) ELSE @]
        hi == thres_hi(method_hi, kwargs, found.hi)
        self3 == [self2 EXCEPT
                    !.on_vector = vector_set_hi_threshold(@, hi.thres),
                    !.off_vector =
                        IF self2.has_off
                        THEN vector_set_hi_threshold(@, hi.thres) ELSE @]
    IN  IF lo.exc # "none" THEN
            [exc |-> lo.exc, self |-> self1, wrote |-> wrote1]
        ELSE IF hi.exc # "none" THEN
            [exc |-> hi.exc, self |-> self2, wrote |-> wrote1 \cup {"lo"}]
        ELSE
            [exc |-> "none", self |-> self3, wrote |-> {"lo", "hi"}]

(* --------------------------- the state machine ------------------------ *)

\* the bounds a caller configures for x: none, a proper pair, and a pair
\* with the lower bound above the upper bound
InitBounds == { <<NaN, NaN>>, <<0, 6>>, <<6, 0>> }

\* the frozen flags of x and y a caller starts from
InitFrozen == { <<FALSE, FALSE>>, <<FALSE, TRUE>>, <<TRUE, TRUE>> }

\* the parameter sets a caller builds
InitParameters ==
    { << [name |-> "x", factor |-> 3, scale |-> sc, factor_min |-> bd[1],
          factor_max |-> bd[2], frozen |-> fz[1], err |-> er],
         [name |-> "y", factor |-> 8, scale |-> 1, factor_min |-> NaN,
          factor_max |-> NaN, frozen |-> fz[2], err |-> 1] >> :
        sc \in {1, 2}, bd \in InitBounds, fz \in InitFrozen,
        er \in 0..MaxErr }

\* the calls of confidence a caller makes: the target, sigma and the
\* keyword overrides of the search endpoints
ConfidenceArgs ==
    { [t |-> t, sigma |-> c[1], kwargs |-> [a |-> c[2], b |-> c[3]]] :
        t \in {1, 2},
        c \in { <<1, None, None>>, <<2, None, None>>, <<1, 0, 3>>,
                <<1, 0, None>>, <<2, None, 5>> } }

Init ==
    /\ parameters \in InitParameters
    /\ function \in Functions
    /\ minimize_impl \in MinimizeImpls
    /\ last = [op |-> "init"]
    /\ noptimize = 0
    /\ observation = NoObservation

\* a caller calls optimize_scipy(parameters, function)
Optimize ==
    /\ noptimize < MaxOptimize
    /\ \E o \in {optimize_scipy(minimize_impl, function, parameters)} :
        /\ noptimize' = noptimize + 1
        /\ parameters' = o.P
        /\ last' = [op |-> "optimize", pre |-> parameters, exc |-> o.exc,
                    factors |-> o.factors, info |-> o.info,
                    last_x |-> o.last_x]
    /\ UNCHANGED <<function, minimize_impl, observation>>

\* a caller calls confidence_scipy(parameters, parameter, function, sigma,
\* **kwargs); when the call before was the same call, repeat compares the
\* two outcomes
Confidence ==
    \E args \in ConfidenceArgs :
        /\ \E c \in {confidence_scipy(minimize_impl, function, parameters,
                                      args.t, args.sigma, args.kwargs)} :
            /\ parameters' = c.P
            /\ last' = [op |-> "confidence", pre |-> parameters,
                        args |-> args, exc |-> c.exc, result |-> c.result,
                        lower |-> c.lower, upper |-> c.upper,
                        between |-> c.between,
                        repeat |-> IF ~(last.op = "confidence" /\ last.args = args)
                                   THEN "first"
                                   ELSE IF /\ last.exc = c.exc
                                           /\ last.result = c.result
                                        THEN "equal" ELSE "differs"]
        /\ UNCHANGED <<function, minimize_impl, noptimize, observation>>

\* a caller calls covariance_scipy(parameters, function)
Covariance ==
    \E c \in {covariance_scipy(function, parameters)} :
        /\ parameters' = c.P
        /\ last' = [op |-> "covariance", pre |-> parameters, exc |-> c.exc,
                    nfev |-> c.nfev]
        /\ UNCHANGED <<function, minimize_impl, noptimize, observation>>

Next == Optimize \/ Confidence \/ Covariance

Spec == Init /\ [][Next]_vars

(* ------------------ the state machine of an observation --------------- *)

\* the counts vectors an observation is built from: the thresholds of the
\* on vector and of the off vector are read independently
InitVectors ==
    { [lo_threshold |-> lo, hi_threshold |-> hi] :
        lo \in Energies, hi \in Energies }

\* an observation with or without an off vector; written names the
\* thresholds the calls so far have written
InitObs ==
    /\ \E on \in InitVectors :
          \/ observation = [on_vector |-> on, off_vector |-> NoVector,
                            has_off |-> FALSE]
          \/ \E off \in InitVectors :
                observation = [on_vector |-> on, off_vector |-> off,
                               has_off |-> TRUE]
    /\ last = [op |-> "init", exc |-> "none", wrote |-> {}, written |-> {}]
    /\ parameters = <<>>
    /\ function = "quadratic"
    /\ minimize_impl = "ignores_bounds"
    /\ noptimize = 0

\* obs.lo_threshold = threshold
SetLoThreshold ==
    \E threshold \in Energies :
        /\ observation' = lo_threshold_setter(observation, threshold)
        /\ last' = [op |-> "lo_threshold", exc |-> "none", wrote |-> {"lo"},
                    written |-> last.written \cup {"lo"}]
        /\ UNCHANGED <<parameters, function, minimize_impl, noptimize>>

\* obs.hi_threshold = threshold
SetHiThreshold ==
    \E threshold \in Energies :
        /\ observation' = hi_threshold_setter(observation, threshold)
        /\ last' = [op |-> "hi_threshold", exc |-> "none", wrote |-> {"hi"},
                    written |-> last.written \cup {"hi"}]
        /\ UNCHANGED <<parameters, function, minimize_impl, noptimize>>

\* obs.reset_thresholds()
ResetThresholds ==
    /\ observation' = reset_thresholds(observation)
    /\ last' = [op |-> "reset_thresholds", exc |-> "none",
                wrote |-> {"lo", "hi"}, written |-> {"lo", "hi"}]
    /\ UNCHANGED <<parameters, function, minimize_impl, noptimize>>

\* obs.compute_energy_threshold(method_lo, method_hi, reset, **kwargs),
\* returning or raising
ComputeEnergyThreshold ==
    \E method_lo \in Methods, method_hi \in Methods, reset \in BOOLEAN,
       kwargs \in Kwargs, found_lo \in Energies, found_hi \in Energies :
        \E c \in {compute_energy_threshold(observation, method_lo, method_hi,
                      reset, kwargs, [lo |-> found_lo, hi |-> found_hi])} :
            /\ observation' = c.self
            /\ last' = [op |-> "compute_energy_threshold", exc |-> c.exc,
                        wrote |-> c.wrote,
                        written |-> last.written \cup c.wrote]
            /\ UNCHANGED <<parameters, function, minimize_impl, noptimize>>

NextObs ==
    \/ SetLoThreshold
    \/ SetHiThreshold
    \/ ResetThresholds
    \/ ComputeEnergyThreshold

SpecObs == InitObs /\ [][NextObs]_vars

(* ------------------------------ properties ---------------------------- *)

Called(op) == last.op = op

\* the target parameter of the last call of confidence, before the call
Target == last.pre[last.args.t]

\* fcn raised during the search s
RaisedInside(s) == \E k \in 1..Len(s.trace) : s.trace[k].exc # "none"

\* C1: after a call of confidence, returned or raised, every parameter has
\* the value and the frozen flag it had before the call
C1_Restored ==
    Called("confidence") =>
        \A i \in 1..Len(parameters) :
            /\ value(parameters[i]) = value(last.pre[i])
            /\ parameters[i].frozen = last.pre[i].frozen

\* C1 witness: a call that raised after its search had frozen the target
\* and moved its factor
C1_Witness ==
    /\ Called("confidence")
    /\ last.exc # "none"
    /\ ~Target.frozen
    /\ last.lower.P[last.args.t].frozen
    /\ last.lower.P[last.args.t].factor # Target.factor
    /\ parameters = last.pre

\* C2: when the root-finder signals that a and b do not bracket a root,
\* confidence returns, with the success flag of that direction False and a
\* non-empty message
C2_BracketingFailureReturned ==
    Called("confidence") =>
        /\ (last.lower.caught /\ last.lower.origin = "brentq") =>
              /\ last.exc = "none"
              /\ ~last.result.success_errn
              /\ last.result.message_errn # ""
        /\ (last.upper.caught /\ last.upper.origin = "brentq") =>
              /\ last.exc = "none"
              /\ ~last.result.success_errp
              /\ last.result.message_errp # ""

\* the endpoints of both searches of the last call bracket the crossings
\* of the quadratic at factors 2 and 4: no override, and in each direction
\* a bound beyond the crossing or a fallback of at least one step
C3_Brackets ==
    /\ last.args.kwargs = [a |-> None, b |-> None]
    /\ IF isnan(Target.factor_min) THEN Target.err >= 1
       ELSE Target.factor_min <= 2
    /\ IF isnan(Target.factor_max) THEN Target.err >= 1
       ELSE Target.factor_max >= 4

\* C3: for the quadratic with the target as the only free parameter, at
\* factor 3, confidence with sigma = 1 returns errn = errp = 1 and both
\* success flags True
C3_QuadraticErrors ==
    ( /\ Called("confidence")
      /\ function = "quadratic"
      /\ last.args.t = 1
      /\ last.args.sigma = 1
      /\ free_parameters(last.pre) = <<1>>
      /\ Target.factor = 3
      /\ C3_Brackets )
    => /\ last.exc = "none"
       /\ last.result.errn = 1
       /\ last.result.errp = 1
       /\ last.result.success_errn
       /\ last.result.success_errp

\* C4: optimize on a parameter set without free parameters raises
C4_AllFrozenRaises ==
    (Called("optimize") /\ free_parameters(last.pre) = <<>>)
        => last.exc # "none"

\* C5: the same call of confidence, made twice in succession, has the same
\* outcome both times
C5_Idempotent == Called("confidence") => last.repeat # "differs"

\* C5 witness: the second of two equal calls returned the same result
C5_Witness ==
    /\ Called("confidence")
    /\ last.repeat = "equal"
    /\ last.exc = "none"
    /\ last.result.success_errn
    /\ last.lower.trace # <<>>

\* the endpoints of the search s that started from the parameter set P are
\* the ones the claim C6 gives
C6_Endpoints(s, P, upper) ==
    LET par == P[last.args.t]
        bound == IF upper THEN par.factor_max ELSE par.factor_min
    IN  /\ last.args.kwargs.a = None => s.a = par.factor
        /\ last.args.kwargs.b = None =>
              IF isnan(bound)
              THEN (IF upper THEN s.b - par.factor ELSE par.factor - s.b)
                      * par.scale = 100 * par.err
              ELSE s.b = bound

\* C6: without overrides, endpoint a is the current factor of the target
\* and endpoint b is its bound in the search direction, or, when that is
\* unset, the current factor plus (upper) or minus (lower) 100 * error / scale
C6_DefaultEndpoints ==
    Called("confidence") =>
        /\ last.lower.started => C6_Endpoints(last.lower, last.pre, FALSE)
        /\ last.upper.started => C6_Endpoints(last.upper, last.between, TRUE)

\* C6 witness: an upper search without overrides on a target without an
\* upper bound, with scale 2: b is 50 above the factor
C6_Witness ==
    /\ Called("confidence")
    /\ last.upper.started
    /\ last.args.kwargs = [a |-> None, b |-> None]
    /\ isnan(Target.factor_max)
    /\ Target.scale = 2
    /\ Target.err = 1
    /\ last.upper.a = Target.factor
    /\ last.upper.b = Target.factor + 50

\* C7: covariance raises NotImplementedError, evaluates nothing and leaves
\* every parameter as it was
C7_CovarianceFails ==
    Called("covariance") =>
        /\ last.exc = "NotImplementedError"
        /\ last.nfev = 0
        /\ parameters = last.pre

\* C7 witness: covariance was called on a set with free parameters
C7_Witness ==
    /\ Called("covariance")
    /\ free_parameters(last.pre) # <<>>

\* an inner run of the Point Optimizer of the search s did not converge,
\* and the direction reports failure with that run's message
C8_Propagated(s, success, message) ==
    \A k \in 1..Len(s.trace) :
        (s.trace[k].opt_exc = "none" /\ ~s.trace[k].opt_success) =>
            /\ ~success
            /\ \E j \in 1..Len(s.trace) : message = s.trace[j].opt_message

\* C8: non-convergence reaches the caller as success = False with the
\* minimizer's message: from optimize, and from confidence when an inner
\* run of the Point Optimizer did not converge
C8_NonConvergencePropagated ==
    /\ (Called("optimize") /\ last.exc = "none" /\ ~last.info.success)
          => last.info.message = MaxfevMessage
    /\ (Called("confidence") /\ last.exc = "none") =>
          /\ C8_Propagated(last.lower, last.result.success_errn,
                           last.result.message_errn)
          /\ C8_Propagated(last.upper, last.result.success_errp,
                           last.result.message_errp)

\* an error raised inside g during the search s reaches the caller as it is
C9_Unchanged(s) ==
    \A k \in 1..Len(s.trace) :
        s.trace[k].exc # "none" =>
            /\ ~s.caught
            /\ last.exc = s.trace[k].exc

\* C9: an error raised inside g by the objective function or by the Point
\* Optimizer propagates to the caller of confidence unchanged and is never
\* turned into the bracketing failure
C9_InnerErrorsPropagate ==
    Called("confidence") =>
        /\ C9_Unchanged(last.lower)
        /\ C9_Unchanged(last.upper)

\* C10: a successful search reports the distance between the root and the
\* factor the target had when the search started
C10_DistanceFromReference ==
    (Called("confidence") /\ last.exc = "none") =>
        /\ last.result.errn = abs(last.lower.root - Target.factor)
        /\ last.result.errp
              = abs(last.upper.root - last.between[last.args.t].factor)

\* C11: the upper search of a call of confidence starts from the values
\* and frozen flags the caller had before the call, the two searches
\* compute the same reference value, and the loglike_ref of the merged
\* result is the objective at the state before the call
C11_UpperStartsFromCallerState ==
    (Called("confidence") /\ last.upper.started) =>
        /\ \A i \in 1..Len(last.pre) :
              /\ value(last.between[i]) = value(last.pre[i])
              /\ last.between[i].frozen = last.pre[i].frozen
        /\ last.upper.result.loglike_ref = last.lower.result.loglike_ref
        /\ last.result.loglike_ref = function_call(function, last.pre).value

\* C11 witness: the lower search left the free target frozen at another
\* factor and another free parameter moved, and the upper search ran and
\* the call returned
C11_Witness ==
    /\ Called("confidence")
    /\ last.exc = "none"
    /\ last.upper.started
    /\ ~Target.frozen
    /\ last.lower.P[last.args.t].frozen
    /\ last.lower.P[last.args.t].factor # Target.factor
    /\ \E i \in 1..Len(last.pre) :
          i # last.args.t /\ last.lower.P[i].factor # last.pre[i].factor
    /\ last.upper.trace # <<>>

\* the profile objective of the k-th call of g in the search s that started
\* from the parameter set S: the target at the trial factor, the other
\* free parameters at the factors the Point Optimizer returned
ProfileObjective(s, S, k) ==
    LET t == last.args.t
        Q == [S EXCEPT ![t].factor = s.trace[k].factor, ![t].frozen = TRUE]
    IN  Likelihood_fcn(function, Q, s.trace[k].opt_factors).value

\* every value g returned during the search s is the profile objective
\* minus the reference value minus sigma^2
C12_Profile(s, S) ==
    \A k \in 1..Len(s.trace) :
        (s.trace[k].opt_exc = "none" /\ s.trace[k].exc = "none") =>
            s.trace[k].value - s.result.loglike_ref
                             - last.args.sigma * last.args.sigma
              = ProfileObjective(s, S, k) - s.result.loglike_ref
                             - last.args.sigma * last.args.sigma

\* C12: for every trial factor x, g(x) is the objective with the target at
\* x and the other free parameters at the best factors returned by the
\* Point Optimizer for that x, minus loglike_ref, minus sigma^2
C12_ProfileAtBestFactors ==
    Called("confidence") =>
        /\ C12_Profile(last.lower, last.pre)
        /\ C12_Profile(last.upper, last.between)

\* what C13 says of the search s that started from the parameter set S:
\* the reference value is the objective at S, and in every call of g the
\* target is frozen, is not among the free parameters of the inner run of
\* the Point Optimizer, and has the trial factor when the objective is
\* evaluated; the target is still frozen when the search ends
C13_Search(s, S) ==
    LET t == last.args.t
        others == Len(free_parameters([S EXCEPT ![t].frozen = TRUE]))
    IN  /\ s.result.loglike_ref = function_call(function, S).value
        /\ s.P[t].frozen
        /\ \A k \in 1..Len(s.trace) :
              /\ s.trace[k].frozen
              /\ s.trace[k].nfree = others
              /\ Len(s.trace[k].opt_factors) = others
              /\ s.trace[k].evaluated[t] = s.trace[k].factor

\* C13: in every bracket search the reference value is evaluated before
\* the target is frozen and before any factor is changed, and from then
\* until the search ends the target stays frozen: no inner run of the
\* Point Optimizer has it among the free parameters, and at the objective
\* evaluations of g(x) its factor is x
C13_TargetFrozenDuringSearch ==
    Called("confidence") =>
        /\ last.lower.started => C13_Search(last.lower, last.pre)
        /\ last.upper.started => C13_Search(last.upper, last.between)

\* C13 witness: a search on a target that was free before the call, with
\* another free parameter that the inner runs moved, and two or more
\* calls of g, one of them at a factor other than the starting one
C13_Witness ==
    /\ Called("confidence")
    /\ function = "quadratic2"
    /\ ~Target.frozen
    /\ Len(free_parameters(last.pre)) = 2
    /\ Len(last.lower.trace) >= 2
    /\ \E k \in 1..Len(last.lower.trace) :
          /\ last.lower.trace[k].factor # Target.factor
          /\ last.lower.trace[k].nfree = 1
          /\ last.lower.trace[k].opt_exc = "none"
          /\ last.lower.trace[k].evaluated # [i \in 1..2 |-> last.pre[i].factor]

\* C14: after optimize returns, every frozen parameter's value, every
\* frozen flag and every bound are as before the call, the free parameters
\* hold the last point the minimizer evaluated, and the returned factors
\* have one entry per free parameter, in free-parameter order: written into
\* the free parameters in that order they give an objective no larger than
\* the one at the point evaluated last
C14_OptimizeFrame ==
    (Called("optimize") /\ last.exc = "none") =>
        LET free == free_parameters(last.pre)
        IN  /\ \A i \in 1..Len(parameters) :
                  /\ parameters[i].frozen = last.pre[i].frozen
                  /\ parameters[i].factor_min = last.pre[i].factor_min
                  /\ parameters[i].factor_max = last.pre[i].factor_max
                  /\ parameters[i].scale = last.pre[i].scale
                  /\ last.pre[i].frozen =>
                        value(parameters[i]) = value(last.pre[i])
            /\ Len(last.last_x) = Len(free)
            /\ \A k \in 1..Len(free) :
                  parameters[free[k]].factor = last.last_x[k]
            /\ Len(last.factors) = Len(free)
            /\ Likelihood_fcn(function, last.pre, last.factors).value
                  <= function_call(function, parameters).value

\* C14 witness: optimize returned on a set with a frozen and a free
\* parameter, the free parameter moved, and it was left at a point other
\* than the returned one
C14_Witness ==
    /\ Called("optimize")
    /\ last.exc = "none"
    /\ last.pre[2].frozen
    /\ free_parameters(last.pre) = <<1>>
    /\ parameters[1].factor # last.pre[1].factor
    /\ parameters[1].factor # last.factors[1]
    /\ parameters[2] = last.pre[2]

====
